---- MODULE Spec2Model ----
(***************************************************************************)
(* Model of the Cairo execution-trace builder                              *)
(* (provers/cairo/src/execution_trace.rs): build_cairo_execution_trace,    *)
(* the post-processing passes of build_main_trace, and the helpers they    *)
(* call.  Collaborators whose code lives in other files of the repository  *)
(* (the trace table, the field, the AIR's column constants, the decoders)  *)
(* are modelled from the specification's description of them.              *)
(*                                                                         *)
(* Rows, columns and steps are numbered from 0 as in the source; a TLA+    *)
(* sequence is indexed from 1, so cell (r, c) of a table t is t[r+1][c+1]. *)
(***************************************************************************)
EXTENDS Integers, Sequences, FiniteSets, TLC

(***************************************************************************)
(* Scaling.  The field is a prime field; the model uses the prime P, large *)
(* enough that every u64, every biased offset and every bit-prefix flag of *)
(* the model converts to a field element without wrapping, as in the       *)
(* source (2^64 < p).  Virtual-machine pointers are unsigned integers of   *)
(* U64_BITS bits and offsets are signed integers of OFF_BITS bits.         *)
(***************************************************************************)
P == 2^15 + 3
U64_BITS == 6
OFF_BITS == 6
U64_MAX == 2^U64_BITS - 1
OFF_BIAS == 2^(OFF_BITS - 1)

CAIRO_STEP == 16
PLAIN_LAYOUT_NUM_COLUMNS == 8

\* Column indices of the plain layout used by the post-processing passes.
OFF_DST == 0
OFF_OP0 == 0
OFF_OP1 == 0
FRAME_PC == 3
FRAME_DST_ADDR == 3
FRAME_OP0_ADDR == 3
FRAME_OP1_ADDR == 3
RC_HOLES == 2
EXTRA_ADDR == 4

\* Option::None; no field element, address or cell is negative.
None == -1

(***************************************************************************)
(* Field elements (Felt252), by their representatives 0 .. P-1.            *)
(***************************************************************************)
Felt(n) == n % P
FAdd(a, b) == (a + b) % P
FSub(a, b) == (a - b + P) % P
FMul(a, b) == (a * b) % P

RECURSIVE FPow(_, _)
FPow(b, e) ==
  IF e = 0 THEN 1
  ELSE LET h == FPow(b, e \div 2)
           sq == (h * h) % P
       IN  IF e % 2 = 1 THEN (sq * b) % P ELSE sq

\* FieldElement::inv: None for zero, the multiplicative inverse otherwise.
FInv(x) == IF x = 0 THEN None ELSE FPow(x, P - 2)

(***************************************************************************)
(* Sequences.                                                              *)
(***************************************************************************)
Min(S) == CHOOSE x \in S : \A y \in S : x <= y
Max(S) == CHOOSE x \in S : \A y \in S : y <= x
Copies(v, n) == [i \in 1..n |-> v]
Values(s) == {s[i] : i \in DOMAIN s}
\* The integers lo, lo+1, ..., hi-1 (a Rust range lo..hi).
RangeSeq(lo, hi) == [i \in 1..(hi - lo) |-> lo + i - 1]

\* The concatenation of seqs[lo], ..., seqs[hi], in order.
RECURSIVE concat_range(_, _, _)
concat_range(seqs, lo, hi) ==
  IF lo > hi THEN <<>>
  ELSE IF lo = hi THEN seqs[lo]
  ELSE LET mid == (lo + hi) \div 2
       IN  concat_range(seqs, lo, mid) \o concat_range(seqs, mid + 1, hi)

concat_all(seqs) == concat_range(seqs, 1, Len(seqs))

\* Vec::sort / sort_by_key(|x| x.representative()): ascending, duplicates kept.
sort_by_representative(s) == SortSeq(s, LAMBDA a, b : a < b)

(***************************************************************************)
(* TraceTable.                                                             *)
(***************************************************************************)
allocate_with_zeros(num_steps, num_cols, step_size) ==
  [r \in 1..(num_steps * step_size) |-> [c \in 1..num_cols |-> 0]]

n_rows(trace) == Len(trace)

last_row(trace) == trace[Len(trace)]

set(trace, row, col, value) == [trace EXCEPT ![row + 1][col + 1] = value]

\* The cells of the named columns, row by row.
merge_columns(trace, column_indexes) ==
  LET w == Len(column_indexes)
  IN  [k \in 1..(Len(trace) * w) |->
         trace[((k - 1) \div w) + 1][column_indexes[((k - 1) % w) + 1] + 1]]

\* Sets the cell when the row exists; otherwise appends a copy of the last
\* row with the cell set.
set_or_extend(trace, row, col, value) ==
  IF row >= n_rows(trace)
  THEN Append(trace, [last_row(trace) EXCEPT ![col + 1] = value])
  ELSE set(trace, row, col, value)

pad_with_last_row(trace, padding_len) ==
  trace \o Copies(last_row(trace), padding_len)

\* set_or_extend(start + k - 1, col, vals[k]) for k = lo .. hi, in that order:
\* the first half of the writes is carried out before the second half starts
\* (a write never removes a row).
RECURSIVE set_or_extend_range(_, _, _, _, _, _)
set_or_extend_range(trace, col, start, vals, lo, hi) ==
  IF lo > hi THEN trace
  ELSE IF lo = hi THEN set_or_extend(trace, start + lo - 1, col, vals[lo])
  ELSE LET mid == (lo + hi) \div 2
           first_half == set_or_extend_range(trace, col, start, vals, lo, mid)
       IN  IF n_rows(first_half) >= n_rows(trace)
           THEN set_or_extend_range(first_half, col, start, vals, mid + 1, hi)
           ELSE first_half

\* The loop that writes vals[1], vals[2], ... into column col at rows start,
\* start + 1, ...
set_or_extend_all(trace, col, start, vals) ==
  set_or_extend_range(trace, col, start, vals, 1, Len(vals))

(***************************************************************************)
(* Range-check holes.                                                      *)
(***************************************************************************)
\* u16 from a representative: its 16 low bits.
U16(v) == v % 65536

\* The loop over sorted.windows(2) with the inclusive range (w0 + 1)..=w1.
missing_values_inclusive(sorted) ==
  concat_all([k \in 1..(Len(sorted) - 1) |->
                IF sorted[k + 1] # sorted[k]
                THEN [i \in 1..(sorted[k + 1] - sorted[k]) |-> Felt(sorted[k] + i)]
                ELSE <<>>])

\* The loop over sorted.windows(2): for each window of two distinct values,
\* the values strictly between them.
missing_values(sorted) ==
  concat_all([k \in 1..(Len(sorted) - 1) |->
                IF sorted[k + 1] # sorted[k]
                THEN [i \in 1..(sorted[k + 1] - sorted[k] - 1) |-> Felt(sorted[k] + i)]
                ELSE <<>>])

get_rc_holes(trace, columns_indices) ==
  LET offset_columns == merge_columns(trace, columns_indices)
      sorted_offset_representatives ==
        sort_by_representative([i \in DOMAIN offset_columns |-> U16(offset_columns[i])])
      all_missing_values == missing_values(sorted_offset_representatives)
      multiple_of_three_padding ==
        ((Len(all_missing_values) + 2) \div 3) * 3 - Len(all_missing_values)
      padding_element ==
        Felt(sorted_offset_representatives[Len(sorted_offset_representatives)])
  IN  [holes  |-> all_missing_values \o Copies(padding_element, multiple_of_three_padding),
       rc_min |-> sorted_offset_representatives[1],
       rc_max |-> sorted_offset_representatives[Len(sorted_offset_representatives)]]

\* fill_rc_holes taking the greatest offset before the holes are written.
fill_rc_holes_greatest_before_holes(trace, holes) ==
  LET offsets == sort_by_representative(
                   merge_columns(trace, <<OFF_DST, OFF_OP0, OFF_OP1, RC_HOLES>>))
      greatest_offset == offsets[Len(offsets)]
      written == set_or_extend_all(trace, RC_HOLES, 0, holes)
      rest == RangeSeq(Len(holes), n_rows(written))
  IN  set_or_extend_all(written, RC_HOLES, Len(holes),
                        Copies(greatest_offset, Len(rest)))

\* fill_rc_holes with the second loop starting at row 0.
fill_rc_holes_rest_from_row_zero(trace, holes) ==
  LET written == set_or_extend_all(trace, RC_HOLES, 0, holes)
      offsets == sort_by_representative(
                   merge_columns(written, <<OFF_DST, OFF_OP0, OFF_OP1, RC_HOLES>>))
      greatest_offset == offsets[Len(offsets)]
  IN  set_or_extend_all(written, RC_HOLES, 0, Copies(greatest_offset, n_rows(written)))

fill_rc_holes(trace, holes) ==
  LET written == set_or_extend_all(trace, RC_HOLES, 0, holes)
      offsets == sort_by_representative(
                   merge_columns(written, <<OFF_DST, OFF_OP0, OFF_OP1, RC_HOLES>>))
      greatest_offset == offsets[Len(offsets)]
      rest == RangeSeq(Len(holes), n_rows(written))
  IN  set_or_extend_all(written, RC_HOLES, Len(holes),
                        Copies(greatest_offset, Len(rest)))

(***************************************************************************)
(* Memory holes and public-memory dummy accesses.                          *)
(***************************************************************************)
\* The while loop pushing every address that is at least codelen.
holes_up_to_codelen_inclusive(hole_addr, addr, codelen) ==
  SelectSeq(RangeSeq(hole_addr, addr), LAMBDA h : h >= codelen)

\* The while loop: hole_addr, hole_addr + 1, ... while below addr, pushed when
\* the representative exceeds codelen.
holes_up_to(hole_addr, addr, codelen) ==
  SelectSeq(RangeSeq(hole_addr, addr), LAMBDA h : h > codelen)

\* The for loop over sorted_addrs; prev_addr starts at the first address.
get_memory_holes(sorted_addrs, codelen) ==
  concat_all([k \in 1..Len(sorted_addrs) |->
                LET addr == sorted_addrs[k]
                    prev_addr == IF k = 1 THEN sorted_addrs[1] ELSE sorted_addrs[k - 1]
                    addr_diff == FSub(addr, prev_addr)
                IN  IF addr_diff # 1 /\ addr_diff # 0 /\ addr > codelen
                    THEN holes_up_to(FAdd(prev_addr, 1), addr, codelen)
                    ELSE <<>>])

\* fill_memory_holes writing the holes after the last row.
fill_memory_holes_after_last_row(trace, memory_holes) ==
  set_or_extend_all(trace, EXTRA_ADDR, n_rows(trace), memory_holes)

\* fill_memory_holes with set in place of set_or_extend: holes past the last
\* row are dropped.
fill_memory_holes_without_extending(trace, memory_holes) ==
  set_or_extend_all(trace, EXTRA_ADDR, 0,
                    SubSeq(memory_holes, 1, Min({Len(memory_holes), n_rows(trace)})))

\* fill_memory_holes writing hole i at row i + 1.
fill_memory_holes_from_row_one(trace, memory_holes) ==
  set_or_extend_all(trace, EXTRA_ADDR, 1, memory_holes)

fill_memory_holes(trace, memory_holes) ==
  set_or_extend_all(trace, EXTRA_ADDR, 0, memory_holes)

\* add_pub_memory_dummy_accesses writing at row i, not last_memory_hole_idx + i.
add_pub_memory_dummy_accesses_from_row_zero(main_trace, pub_memory_len, last_memory_hole_idx) ==
  set_or_extend_all(main_trace, EXTRA_ADDR, 0, Copies(Felt(0), pub_memory_len))

add_pub_memory_dummy_accesses(main_trace, pub_memory_len, last_memory_hole_idx) ==
  set_or_extend_all(main_trace, EXTRA_ADDR, last_memory_hole_idx,
                    Copies(Felt(0), pub_memory_len))

\* usize::next_power_of_two: the smallest power of two >= n (1 for n = 0).
RECURSIVE pow2_at_least(_, _)
pow2_at_least(p, n) == IF p >= n THEN p ELSE pow2_at_least(2 * p, n)
\* The smallest power of two > n.
next_power_of_two_above(n) == pow2_at_least(1, n + 1)

next_power_of_two(n) == pow2_at_least(1, n)

(***************************************************************************)
(* Inputs.  A register state is [pc, ap, fp]; memory maps each address     *)
(* 0 .. U64_MAX to a field element or to None; the decoder's answer is     *)
(* [err, val]: an error, or per step a record [flags, offsets].            *)
(***************************************************************************)
Err == [err |-> TRUE, val |-> <<>>]
Ok(val) == [err |-> FALSE, val |-> val]

\* CairoMemory::get
memory_get(memory, addr) == memory[addr]

\* u64::wrapping_add_signed: the sum modulo 2^U64_BITS.
wrapping_add_signed(x, off) == (x + off) % (U64_MAX + 1)

\* u64::checked_add_signed: None when the sum leaves 0 .. U64_MAX.
checked_add_signed(x, off) ==
  IF x + off < 0 \/ x + off > U64_MAX THEN None ELSE x + off

\* The least-significant 64-bit limb of the representative.
aux_get_last_nim_of_field_element(x) == x % (U64_MAX + 1)

\* Bit b_j (j = 0 .. 15) of the flag word, from the seven flag fields.
flag_bit(f, j) ==
  CASE j = 0  -> IF f.dst_reg = "FP" THEN 1 ELSE 0
    [] j = 1  -> IF f.op0_reg = "FP" THEN 1 ELSE 0
    [] j = 2  -> IF f.op1_src = "Imm" THEN 1 ELSE 0
    [] j = 3  -> IF f.op1_src = "FP" THEN 1 ELSE 0
    [] j = 4  -> IF f.op1_src = "AP" THEN 1 ELSE 0
    [] j = 5  -> IF f.res_logic \in {"Add", "Unconstrained"} THEN 1 ELSE 0
    [] j = 6  -> IF f.res_logic \in {"Mul", "Unconstrained"} THEN 1 ELSE 0
    [] j = 7  -> IF f.pc_update = "Jump" THEN 1 ELSE 0
    [] j = 8  -> IF f.pc_update = "JumpRel" THEN 1 ELSE 0
    [] j = 9  -> IF f.pc_update = "Jnz" THEN 1 ELSE 0
    [] j = 10 -> IF f.ap_update = "Add" THEN 1 ELSE 0
    [] j = 11 -> IF f.ap_update = "Add1" THEN 1 ELSE 0
    [] j = 12 -> IF f.opcode = "Call" THEN 1 ELSE 0
    [] j = 13 -> IF f.opcode = "Ret" THEN 1 ELSE 0
    [] j = 14 -> IF f.opcode = "AssertEq" THEN 1 ELSE 0
    [] OTHER  -> 0

\* Bit-prefix k: the sum of 2^(j-k) * b_j over j = k .. 15.
RECURSIVE bit_prefix(_, _)
bit_prefix(f, k) ==
  IF k > 15 THEN 0 ELSE flag_bit(f, k) + 2 * bit_prefix(f, k + 1)

\* CairoInstructionFlags::to_trace_representation, entries 0 .. 15 at 1 .. 16.
flags_to_trace_representation(f) == [k \in 1..16 |-> Felt(bit_prefix(f, k - 1))]

\* InstructionOffsets::to_trace_representation: (off_dst, off_op0, off_op1),
\* each moved into 0 .. 2^OFF_BITS - 1.
offsets_to_trace_representation(o) ==
  <<Felt(o.off_dst + OFF_BIAS), Felt(o.off_op0 + OFF_BIAS), Felt(o.off_op1 + OFF_BIAS)>>

(***************************************************************************)
(* Operand resolution.  An operand is [ok, addr, val]; ok = FALSE is the   *)
(* panic of an unwrap (address overflow, or an address absent from memory).*)
(***************************************************************************)
operand_at(memory, addr) ==
  IF addr = None THEN [ok |-> FALSE, cause |-> "overflow", addr |-> 0, val |-> 0]
  ELSE IF memory_get(memory, addr) = None
       THEN [ok |-> FALSE, cause |-> "memory_miss", addr |-> Felt(addr), val |-> 0]
       ELSE [ok |-> TRUE, cause |-> "", addr |-> Felt(addr), val |-> memory_get(memory, addr)]

compute_dst(f, o, t, memory) ==
  IF f.dst_reg = "AP"
  THEN operand_at(memory, checked_add_signed(t.ap, o.off_dst))
  ELSE operand_at(memory, checked_add_signed(t.fp, o.off_dst))

compute_op0(f, o, t, memory) ==
  IF f.op0_reg = "AP"
  THEN operand_at(memory, checked_add_signed(t.ap, o.off_op0))
  ELSE operand_at(memory, checked_add_signed(t.fp, o.off_op0))

compute_op1(f, o, t, memory, op0) ==
  CASE f.op1_src = "Op0" ->
         operand_at(memory, checked_add_signed(aux_get_last_nim_of_field_element(op0), o.off_op1))
    [] f.op1_src = "Imm" -> operand_at(memory, checked_add_signed(t.pc, o.off_op1))
    [] f.op1_src = "AP"  -> operand_at(memory, checked_add_signed(t.ap, o.off_op1))
    [] f.op1_src = "FP"  -> operand_at(memory, checked_add_signed(t.fp, o.off_op1))

\* A res: [ok, cause, val]; ok = FALSE is a panic.
Res(val) == [ok |-> TRUE, cause |-> "", val |-> val]
UndefinedBehavior == [ok |-> FALSE, cause |-> "undefined_behavior", val |-> 0]

\* dst.inv().unwrap(): the unwrap panics when there is no inverse.
inv_unwrap(dst) ==
  IF FInv(dst) = None THEN [ok |-> FALSE, cause |-> "inverse_of_zero", val |-> 0]
  ELSE Res(FInv(dst))

\* compute_res inverting dst in every jnz step, zero or not.
compute_res_jnz_always_inverts(f, op0, op1, dst) ==
  IF f.pc_update = "Jnz"
  THEN IF f.res_logic = "Op1" /\ f.opcode = "NOp"
          /\ f.ap_update \in {"Regular", "Add1", "Add2"}
       THEN inv_unwrap(dst)
       ELSE UndefinedBehavior
  ELSE CASE f.res_logic = "Op1" -> Res(op1)
         [] f.res_logic = "Add" -> Res(FAdd(op0, op1))
         [] f.res_logic = "Mul" -> Res(FMul(op0, op1))
         [] f.res_logic = "Unconstrained" -> UndefinedBehavior

\* compute_res with a catch-all arm: an unconstrained res is op1.
compute_res_unconstrained_as_op1(f, op0, op1, dst) ==
  IF f.pc_update = "Jnz"
  THEN IF f.res_logic = "Op1" /\ f.opcode = "NOp"
          /\ f.ap_update \in {"Regular", "Add1", "Add2"}
       THEN IF dst = Felt(0) THEN Res(dst) ELSE inv_unwrap(dst)
       ELSE UndefinedBehavior
  ELSE CASE f.res_logic = "Add" -> Res(FAdd(op0, op1))
         [] f.res_logic = "Mul" -> Res(FMul(op0, op1))
         [] OTHER -> Res(op1)

compute_res(f, op0, op1, dst) ==
  IF f.pc_update = "Jnz"
  THEN IF f.res_logic = "Op1" /\ f.opcode = "NOp"
          /\ f.ap_update \in {"Regular", "Add1", "Add2"}
       THEN IF dst = Felt(0) THEN Res(dst) ELSE inv_unwrap(dst)
       ELSE UndefinedBehavior
  ELSE CASE f.res_logic = "Op1" -> Res(op1)
         [] f.res_logic = "Add" -> Res(FAdd(op0, op1))
         [] f.res_logic = "Mul" -> Res(FMul(op0, op1))
         [] f.res_logic = "Unconstrained" -> UndefinedBehavior

instruction_size(f) == IF f.op1_src = "Imm" THEN 2 ELSE 1

\* The u64 sum pc + instruction_size; it overflows above U64_MAX.
call_return_pc(f, t) == t.pc + instruction_size(f)

\* update_values without the branch of Call.
update_values_without_call(f, t, v) ==
  IF f.opcode = "AssertEq" THEN [v EXCEPT !.res = v.dst] ELSE v

\* update_values for one step, on [op0, dst, res]: the values after the
\* opcode overrides (the sum wraps when the build does not check overflow).
update_values(f, t, v) ==
  IF f.opcode = "Call"
  THEN [v EXCEPT !.op0 = Felt(call_return_pc(f, t) % (U64_MAX + 1)), !.dst = Felt(t.fp)]
  ELSE IF f.opcode = "AssertEq"
       THEN [v EXCEPT !.res = v.dst]
       ELSE v

(***************************************************************************)
(* Range-check limb decomposition.  A limb has RC_LIMB_BITS bits (16 in    *)
(* the source); the RC_LIMBS limbs cover the low 8 of the 16 bits of a     *)
(* representative, as the source's cover the low 128 of 252 bits.          *)
(***************************************************************************)
RC_LIMB_BITS == 1
RC_LIMBS == 8

\* x & mask, for the mask of RC_LIMB_BITS one bits.
and_mask(x) == x % (2^RC_LIMB_BITS)

\* x >> 16: the representative without its lowest limb.
shift_right(x) == x \div (2^RC_LIMB_BITS)

\* rc_base_types after n rounds of the loop: every value shifted n times.
RECURSIVE rc_base_types_after(_, _)
rc_base_types_after(rc_values, n) ==
  IF n = 0 THEN rc_values
  ELSE LET rc_base_types == rc_base_types_after(rc_values, n - 1)
       IN  [i \in DOMAIN rc_base_types |-> shift_right(rc_base_types[i])]

\* The loop without the shift of rc_base_types at the end of a round.
decompose_rc_values_into_trace_columns_without_shift(rc_values) ==
  [j \in 1..RC_LIMBS |-> [i \in DOMAIN rc_values |-> Felt(and_mask(rc_values[i]))]]

\* Column j - 1 is pushed in round j - 1 of the loop.
decompose_rc_values_into_trace_columns(rc_values) ==
  [j \in 1..RC_LIMBS |->
     LET rc_base_types == rc_base_types_after(rc_values, j - 1)
     IN  [i \in DOMAIN rc_base_types |-> Felt(and_mask(rc_base_types[i]))]]

(***************************************************************************)
(* Column assembler.  Each set_* writes its vectors into the step blocks.  *)
(***************************************************************************)
step_of(r) == ((r - 1) \div CAIRO_STEP) + 1
sub_row_of(r) == (r - 1) % CAIRO_STEP

\* Rewrites column col: cells[step][sub_row + 1] is the new value, or None
\* where the cell is not written; the blocks of the steps that have no
\* entry in the vectors are left as they are.
write_cells(trace, col, cells) ==
  [r \in DOMAIN trace |->
     IF step_of(r) \in DOMAIN cells
     THEN [trace[r] EXCEPT ![col + 1] =
             LET v == cells[step_of(r)][sub_row_of(r) + 1]
             IN  IF v # None THEN v ELSE @]
     ELSE trace[r]]

\* set_offsets with off_op0 and off_op1 at each other's sub-row.
set_offsets_op0_op1_swapped(trace, offsets) ==
  write_cells(trace, 0,
    [s \in DOMAIN offsets |-> [k \in 1..CAIRO_STEP |->
       CASE k - 1 = 0 -> offsets[s][1]
         [] k - 1 = 4 -> offsets[s][2]
         [] k - 1 = 8 -> offsets[s][3]
         [] OTHER -> None]])

set_offsets(trace, offsets) ==
  write_cells(trace, 0,
    [s \in DOMAIN offsets |-> [k \in 1..CAIRO_STEP |->
       CASE k - 1 = 0 -> offsets[s][1]
         [] k - 1 = 8 -> offsets[s][2]
         [] k - 1 = 4 -> offsets[s][3]
         [] OTHER -> None]])

set_bit_prefix_flags(trace, bit_prefix_flags) ==
  write_cells(trace, 1,
    [s \in DOMAIN bit_prefix_flags |-> [k \in 1..CAIRO_STEP |-> bit_prefix_flags[s][k]]])

\* set_mem_pool with the instruction at the pc sub-row as well.
set_mem_pool_instruction_at_pc(trace, pcs, instructions, op0_addrs, op0_vals, dst_addrs, dst_vals, op1_addrs, op1_vals) ==
  write_cells(trace, 3,
    [s \in DOMAIN pcs |-> [k \in 1..CAIRO_STEP |->
       CASE k - 1 = 0  -> instructions[s]
         [] k - 1 = 1  -> instructions[s]
         [] k - 1 = 4  -> op0_addrs[s]
         [] k - 1 = 5  -> op0_vals[s]
         [] k - 1 = 8  -> dst_addrs[s]
         [] k - 1 = 9  -> dst_vals[s]
         [] k - 1 = 12 -> op1_addrs[s]
         [] k - 1 = 13 -> op1_vals[s]
         [] OTHER -> None]])

set_mem_pool(trace, pcs, instructions, op0_addrs, op0_vals, dst_addrs, dst_vals, op1_addrs, op1_vals) ==
  write_cells(trace, 3,
    [s \in DOMAIN pcs |-> [k \in 1..CAIRO_STEP |->
       CASE k - 1 = 0  -> pcs[s]
         [] k - 1 = 1  -> instructions[s]
         [] k - 1 = 4  -> op0_addrs[s]
         [] k - 1 = 5  -> op0_vals[s]
         [] k - 1 = 8  -> dst_addrs[s]
         [] k - 1 = 9  -> dst_vals[s]
         [] k - 1 = 12 -> op1_addrs[s]
         [] k - 1 = 13 -> op1_vals[s]
         [] OTHER -> None]])

\* set_update_pc with t0 and t1 at each other's sub-row.
set_update_pc_t0_t1_swapped(trace, aps, t0s, t1s, mul, fps, res) ==
  write_cells(trace, 5,
    [s \in DOMAIN aps |-> [k \in 1..CAIRO_STEP |->
       CASE k - 1 = 0  -> aps[s]
         [] k - 1 = 2  -> t1s[s]
         [] k - 1 = 4  -> mul[s]
         [] k - 1 = 8  -> fps[s]
         [] k - 1 = 10 -> t0s[s]
         [] k - 1 = 12 -> res[s]
         [] OTHER -> None]])

set_update_pc(trace, aps, t0s, t1s, mul, fps, res) ==
  write_cells(trace, 5,
    [s \in DOMAIN aps |-> [k \in 1..CAIRO_STEP |->
       CASE k - 1 = 0  -> aps[s]
         [] k - 1 = 2  -> t0s[s]
         [] k - 1 = 4  -> mul[s]
         [] k - 1 = 8  -> fps[s]
         [] k - 1 = 10 -> t1s[s]
         [] k - 1 = 12 -> res[s]
         [] OTHER -> None]])

(***************************************************************************)
(* build_cairo_execution_trace.                                            *)
(***************************************************************************)
\* The operands with update_values run before compute_op1: op1 is resolved
\* from the overridden op0.
base_operands_op1_after_overrides(register_states, memory, decoded, i) ==
  LET f == decoded.val[i].flags
      o == decoded.val[i].offsets
      t == register_states[i]
      dst == compute_dst(f, o, t, memory)
      op0 == compute_op0(f, o, t, memory)
      overridden == update_values(f, t, [op0 |-> op0.val, dst |-> dst.val, res |-> 0])
      op1 == compute_op1(f, o, t, memory, overridden.op0)
  IN  [dst |-> dst, op0 |-> op0, op1 |-> op1,
       res |-> compute_res(f, op0.val, op1.val, dst.val)]

\* dst, op0, op1 and res of step i as computed from flags and offsets.
base_operands(register_states, memory, decoded, i) ==
  LET f == decoded.val[i].flags
      o == decoded.val[i].offsets
      t == register_states[i]
      dst == compute_dst(f, o, t, memory)
      op0 == compute_op0(f, o, t, memory)
      op1 == compute_op1(f, o, t, memory, op0.val)
  IN  [dst |-> dst, op0 |-> op0, op1 |-> op1,
       res |-> compute_res(f, op0.val, op1.val, dst.val)]

\* [op0, dst, res] of step i after update_values.
updated_values(register_states, memory, decoded, i) ==
  LET b == base_operands(register_states, memory, decoded, i)
  IN  update_values(decoded.val[i].flags, register_states[i],
                    [op0 |-> b.op0.val, dst |-> b.dst.val, res |-> b.res.val])

\* Why the builder panics once the flags and offsets are decoded, or "" when
\* it does not: the first failing unwrap or panic! in the order the source
\* evaluates them.
operands_panic(register_states, memory, decoded, overflow_checks) ==
  LET steps == DOMAIN register_states
      b(i) == base_operands(register_states, memory, decoded, i)
  IN  IF \E i \in steps : ~b(i).dst.ok
        THEN b(Min({i \in steps : ~b(i).dst.ok})).dst.cause
      ELSE IF \E i \in steps : ~b(i).op0.ok
        THEN b(Min({i \in steps : ~b(i).op0.ok})).op0.cause
      ELSE IF \E i \in steps : ~b(i).op1.ok
        THEN b(Min({i \in steps : ~b(i).op1.ok})).op1.cause
      ELSE IF \E i \in steps : ~b(i).res.ok
        THEN b(Min({i \in steps : ~b(i).res.ok})).res.cause
      ELSE IF overflow_checks
              /\ \E i \in steps : /\ decoded.val[i].flags.opcode = "Call"
                                  /\ call_return_pc(decoded.val[i].flags, register_states[i]) > U64_MAX
        THEN "overflow"
      ELSE IF \E i \in steps : memory_get(memory, register_states[i].pc) = None
        THEN "memory_miss"
      ELSE ""

\* The builder with unwrap_or_default in place of unwrap: a decode error
\* leaves no flags and no offsets, and no operand is computed.
execution_panic_decode_error_defaulted(register_states, memory, decoded, overflow_checks) ==
  IF decoded.err
  THEN IF \E i \in DOMAIN register_states : memory_get(memory, register_states[i].pc) = None
       THEN "memory_miss"
       ELSE ""
  ELSE operands_panic(register_states, memory, decoded, overflow_checks)

\* Why the builder panics, or "" when it does not: the unwrap of the decode
\* error, then the unwraps and panics of the operands.
execution_panic(register_states, memory, decoded, overflow_checks) ==
  IF decoded.err THEN "decode"
  ELSE operands_panic(register_states, memory, decoded, overflow_checks)

\* The trace table of a build that does not panic.  The zips of the source
\* end with the shortest vector: every step that has flags and offsets.
build_cairo_execution_trace(register_states, memory, decoded) ==
  LET num_steps == Len(register_states)
      steps == 1..Min({num_steps, Len(decoded.val)})
      b(i) == base_operands(register_states, memory, decoded, i)
      u(i) == updated_values(register_states, memory, decoded, i)
      dst_addrs == [i \in steps |-> b(i).dst.addr]
      op0_addrs == [i \in steps |-> b(i).op0.addr]
      op1_addrs == [i \in steps |-> b(i).op1.addr]
      op1s == [i \in steps |-> b(i).op1.val]
      op0s == [i \in steps |-> u(i).op0]
      dsts == [i \in steps |-> u(i).dst]
      res  == [i \in steps |-> u(i).res]
      bit_prefix_flags == [i \in steps |-> flags_to_trace_representation(decoded.val[i].flags)]
      unbiased_offsets == [i \in steps |-> offsets_to_trace_representation(decoded.val[i].offsets)]
      aps == [i \in steps |-> Felt(register_states[i].ap)]
      fps == [i \in steps |-> Felt(register_states[i].fp)]
      pcs == [i \in steps |-> Felt(register_states[i].pc)]
      instructions == [i \in steps |-> memory_get(memory, register_states[i].pc)]
      two == Felt(2)
      t0 == [i \in steps |->
               FMul(FSub(bit_prefix_flags[i][10], FMul(two, bit_prefix_flags[i][11])), dsts[i])]
      t1 == [i \in steps |-> FMul(t0[i], res[i])]
      mul == [i \in steps |-> FMul(op0s[i], op1s[i])]
      trace0 == allocate_with_zeros(num_steps, PLAIN_LAYOUT_NUM_COLUMNS, CAIRO_STEP)
      trace1 == set_offsets(trace0, unbiased_offsets)
      trace2 == set_bit_prefix_flags(trace1, bit_prefix_flags)
      trace3 == set_mem_pool(trace2, pcs, instructions, op0_addrs, op0s, dst_addrs, dsts, op1_addrs, op1s)
  IN  set_update_pc(trace3, aps, t0, t1, mul, fps, res)

(***************************************************************************)
(* Post-processing passes of build_main_trace, in the order of the source. *)
(* The record keeps what each pass produced.                               *)
(***************************************************************************)
post_process(main_trace, codelen, pub_memory_len) ==
  LET address_cols == sort_by_representative(
                        merge_columns(main_trace,
                          <<FRAME_PC, FRAME_DST_ADDR, FRAME_OP0_ADDR, FRAME_OP1_ADDR>>))
      rc == get_rc_holes(main_trace, <<OFF_DST, OFF_OP0, OFF_OP1>>)
      rc_filled == fill_rc_holes(main_trace, rc.holes)
      memory_holes == get_memory_holes(address_cols, codelen)
      holes_filled == IF memory_holes # <<>>
                      THEN fill_memory_holes(rc_filled, memory_holes)
                      ELSE rc_filled
      with_dummies == add_pub_memory_dummy_accesses(holes_filled, pub_memory_len,
                                                    Len(memory_holes))
      trace_len_next_power_of_two == next_power_of_two(n_rows(with_dummies))
      padding_len == trace_len_next_power_of_two - n_rows(with_dummies)
  IN  [built |-> main_trace,
       rc_holes |-> rc.holes, rc_min |-> rc.rc_min, rc_max |-> rc.rc_max,
       rc_filled |-> rc_filled, memory_holes |-> memory_holes,
       fill_memory_holes_invoked |-> memory_holes # <<>>,
       holes_filled |-> holes_filled, with_dummies |-> with_dummies,
       trace |-> pad_with_last_row(with_dummies, padding_len)]

(***************************************************************************)
(* Bounded inputs.                                                         *)
(***************************************************************************)
MaxSteps == 2

\* Memory: a program segment at 1 .. 7, an execution segment at 33 .. 35,
\* one cell at the top of the address space; every other address is absent.
Memory ==
  [a \in 0..U64_MAX |->
     CASE a = 1  -> 9
       [] a = 2  -> 3
       [] a = 3  -> 5
       [] a = 4  -> 0
       [] a = 5  -> 2
       [] a = 7  -> 1
       [] a = 33 -> 34
       [] a = 34 -> 3
       [] a = 35 -> 65
       [] a = 63 -> 1
       [] OTHER  -> None]

Flags(dst_reg, op0_reg, op1_src, res_logic, pc_update, ap_update, opcode) ==
  [dst_reg |-> dst_reg, op0_reg |-> op0_reg, op1_src |-> op1_src, res_logic |-> res_logic,
   pc_update |-> pc_update, ap_update |-> ap_update, opcode |-> opcode]

Step(pc, ap, fp, flags, off_dst, off_op0, off_op1) ==
  [t |-> [pc |-> pc, ap |-> ap, fp |-> fp], flags |-> flags,
   offsets |-> [off_dst |-> off_dst, off_op0 |-> off_op0, off_op1 |-> off_op1]]

\* The executed instructions the inputs are drawn from: every opcode, every
\* op1 source, every res logic, jnz on a zero and on a non-zero dst, a call
\* whose memory agrees with the overrides and one whose memory does not, an
\* op0 value wider than a pointer (also in the call whose memory does not
\* agree, which adds its operands), both forbidden flag combinations, a
\* pointer sum above U64_MAX and one below 0 (both land on present addresses
\* when wrapped), a memory miss, and a call at the top of the address space.
StepChoices ==
  { Step(1, 33, 34, Flags("AP", "FP", "FP", "Op1", "Regular", "Regular", "NOp"), -32, -31, -30),
    Step(2, 33, 33, Flags("FP", "AP", "AP", "Add", "Regular", "Add1", "AssertEq"), -31, -30, -28),
    Step(1, 33, 34, Flags("AP", "AP", "Imm", "Op1", "JumpRel", "Add2", "Call"), 0, 1, 1),
    Step(2, 34, 33, Flags("AP", "AP", "Op0", "Add", "Jump", "Add2", "Call"), 0, 1, 2),
    Step(3, 35, 35, Flags("FP", "FP", "FP", "Op1", "Jump", "Regular", "Ret"), -2, -1, -1),
    Step(1, 33, 34, Flags("AP", "FP", "Imm", "Op1", "Jnz", "Regular", "NOp"), -30, -31, 1),
    Step(1, 33, 34, Flags("AP", "FP", "Imm", "Op1", "Jnz", "Add1", "NOp"), -29, -31, 1),
    Step(2, 34, 33, Flags("FP", "AP", "Op0", "Mul", "Regular", "Add", "NOp"), 0, 1, 2),
    Step(1, 33, 34, Flags("AP", "AP", "FP", "Op1", "Regular", "Regular", "NOp"), 0, 0, -27),
    Step(1, 33, 34, Flags("AP", "FP", "FP", "Unconstrained", "Regular", "Regular", "NOp"), -32, -31, -30),
    Step(1, 33, 34, Flags("AP", "FP", "FP", "Op1", "Jnz", "Regular", "Call"), -32, -31, -30),
    Step(5, 63, 1, Flags("AP", "FP", "FP", "Op1", "Regular", "Regular", "NOp"), 2, -2, 0),
    Step(1, 33, 34, Flags("AP", "FP", "FP", "Op1", "Regular", "Regular", "NOp"), -20, -31, -30),
    Step(63, 33, 34, Flags("AP", "AP", "FP", "Op1", "Jump", "Add2", "Call"), 0, 1, -30) }

RECURSIVE SeqsUpTo(_, _)
SeqsUpTo(S, n) ==
  IF n = 0 THEN {<<>>}
  ELSE LET shorter == SeqsUpTo(S, n - 1)
       IN  shorter \cup {Append(q, x) : q \in {r \in shorter : Len(r) = n - 1}, x \in S}

\* The public input: the program length and the number of public-memory
\* entries (the program's cells are public memory, so there are at least
\* codelen of them).  The last choice is a program segment that reaches past
\* every address and value of the model, so that no memory hole is found.
PublicInputChoices ==
  { [codelen |-> 0, len |-> 0], [codelen |-> 4, len |-> 6], [codelen |-> 4, len |-> 19],
    [codelen |-> U64_MAX + 2, len |-> U64_MAX + 3] }

\* Tables handed directly to get_rc_holes and fill_rc_holes: up to MaxRows
\* rows of three columns, among them rows of the source's unit tests (equal
\* cells) and rows whose column RC_HOLES holds an earlier value.
MaxRows == 4
RowChoices ==
  { <<1, 1, 1>>, <<4, 4, 4>>, <<7, 7, 7>>, <<3, 0, 9>>, <<0, 2, 0>> }
ColumnsIndicesChoices == { <<0>>, <<0, 1>>, <<0, 1, 2>>, <<OFF_DST, OFF_OP0, OFF_OP1>> }

\* Address lists handed directly to get_memory_holes: the ascending lists
\* (duplicates allowed) of 1 .. MaxAddrs addresses among 0 .. MaxAddr, with
\* every codelen from 0 to past the largest address.
MaxAddrs == 4
MaxAddr == 7
RECURSIVE AscendingSeqs(_, _)
AscendingSeqs(S, n) ==
  IF n = 0 THEN {<<>>}
  ELSE LET shorter == AscendingSeqs(S, n - 1)
       IN  shorter \cup
             {Append(q, x) : <<q, x>> \in
                {y \in {r \in shorter : Len(r) = n - 1} \X S :
                   y[1] = <<>> \/ y[1][Len(y[1])] <= y[2]}}

\* Values handed directly to decompose_rc_values_into_trace_columns: up to
\* MaxRcValues representatives, among them values of equal limbs, of
\* alternating limbs, and values that need more than RC_LIMBS limbs.
MaxRcValues == 2
RcValueChoices == {0, 1, 2, 85, 170, 255, 256, 853, P - 1}

(***************************************************************************)
(* State.                                                                  *)
(***************************************************************************)
VARIABLES
  register_states,  \* input: the sequence of [pc, ap, fp]
  memory,           \* input: the memory map
  decoded,          \* input: what flags_and_offsets answers
  public_input,     \* the PublicInputs record
  status,           \* "start", "returned", "panicked", "rerun" for a call of
                    \* build_main_trace; "helper", "holes", "filled" for a
                    \* call of get_rc_holes followed by fill_rc_holes;
                    \* "addrs", "memory_holes" for a call of get_memory_holes;
                    \* "rc_values", "decomposed" for a call of
                    \* decompose_rc_values_into_trace_columns
  panic_cause,      \* why build_main_trace panicked
  main_trace,       \* the trace build_main_trace returned
  passes,           \* what each post-processing pass produced
  second_trace,     \* the trace of a second run of the passes
  table,            \* the table handed to get_rc_holes and fill_rc_holes
  columns_indices,  \* the range-checked columns handed to get_rc_holes
  rc,               \* what get_rc_holes returned
  filled,           \* the table after fill_rc_holes
  sorted_addrs,     \* the address list handed to get_memory_holes
  codelen,          \* the codelen handed to get_memory_holes
  memory_holes,     \* what get_memory_holes returned
  rc_values,        \* the values handed to decompose_rc_values_into_trace_columns
  decomposition_columns  \* the columns it returned

vars == <<register_states, memory, decoded, public_input, status, panic_cause,
          main_trace, passes, second_trace, table, columns_indices, rc, filled,
          sorted_addrs, codelen, memory_holes, rc_values, decomposition_columns>>

build_vars == <<register_states, memory, decoded, public_input, panic_cause,
                main_trace, passes, second_trace>>
rc_holes_vars == <<table, columns_indices, rc, filled>>
memory_holes_vars == <<sorted_addrs, codelen, memory_holes>>
decompose_vars == <<rc_values, decomposition_columns>>
helper_vars == <<rc_holes_vars, memory_holes_vars, decompose_vars>>

num_steps == Len(register_states)
pub_memory_len == Cardinality(DOMAIN public_input.public_memory)

\* The variables of a call that is not the one under way.
NoBuild ==
  /\ register_states = <<>>
  /\ memory = Memory
  /\ decoded = Err
  /\ public_input = [public_memory |-> <<>>, codelen |-> 0,
                     range_check_min |-> None, range_check_max |-> None]
  /\ panic_cause = ""
  /\ main_trace = <<>>
  /\ passes = <<>>
  /\ second_trace = <<>>

NoRcHoles ==
  /\ table = <<>>
  /\ columns_indices = <<>>
  /\ rc = <<>>
  /\ filled = <<>>

NoMemoryHoles ==
  /\ sorted_addrs = <<>>
  /\ codelen = 0
  /\ memory_holes = <<>>

NoDecompose ==
  /\ rc_values = <<>>
  /\ decomposition_columns = <<>>

\* A call of build_main_trace.
InitBuild ==
  /\ \E steps \in SeqsUpTo(StepChoices, MaxSteps) :
       /\ register_states = [i \in DOMAIN steps |-> steps[i].t]
       /\ \E decode_fails \in BOOLEAN :
            decoded = IF decode_fails THEN Err
                      ELSE Ok([i \in DOMAIN steps |->
                                 [flags |-> steps[i].flags, offsets |-> steps[i].offsets]])
  /\ memory = Memory
  /\ \E choice \in PublicInputChoices :
       public_input = [public_memory |-> [a \in 1..choice.len |-> 0],
                       codelen |-> choice.codelen,
                       range_check_min |-> None, range_check_max |-> None]
  /\ status = "start"
  /\ panic_cause = ""
  /\ main_trace = <<>>
  /\ passes = <<>>
  /\ second_trace = <<>>
  /\ NoRcHoles
  /\ NoMemoryHoles
  /\ NoDecompose

\* A call of get_rc_holes on a table of its own.
InitHelper ==
  /\ table \in SeqsUpTo(RowChoices, MaxRows) \ {<<>>}
  /\ columns_indices \in ColumnsIndicesChoices
  /\ status = "helper"
  /\ rc = <<>>
  /\ filled = <<>>
  /\ NoBuild
  /\ NoMemoryHoles
  /\ NoDecompose

\* A call of get_memory_holes on an address list of its own.
InitMemoryHoles ==
  /\ sorted_addrs \in AscendingSeqs(0..MaxAddr, MaxAddrs) \ {<<>>}
  /\ codelen \in 0..(MaxAddr + 1)
  /\ memory_holes = <<>>
  /\ status = "addrs"
  /\ NoBuild
  /\ NoRcHoles
  /\ NoDecompose

\* A call of decompose_rc_values_into_trace_columns on values of its own.
InitDecompose ==
  /\ rc_values \in SeqsUpTo(RcValueChoices, MaxRcValues)
  /\ decomposition_columns = <<>>
  /\ status = "rc_values"
  /\ NoBuild
  /\ NoRcHoles
  /\ NoMemoryHoles

Init == InitBuild \/ InitHelper \/ InitMemoryHoles \/ InitDecompose

\* Why build_main_trace panics on the inputs, or "": a panic of the execution
\* trace builder, or get_rc_holes' unwrap of the last of no offsets.
main_trace_panic(overflow_checks) ==
  LET cause == execution_panic(register_states, memory, decoded, overflow_checks)
  IN  IF cause # "" THEN cause
      ELSE IF num_steps = 0 THEN "empty"
      ELSE ""

\* build_main_trace runs to its end and returns the trace.
BuildMainTraceReturns ==
  /\ status = "start"
  /\ "" \in {main_trace_panic(overflow_checks) : overflow_checks \in BOOLEAN}
  /\ passes' = post_process(build_cairo_execution_trace(register_states, memory, decoded),
                            public_input.codelen, pub_memory_len)
  /\ main_trace' = passes'.trace
  /\ public_input' = [public_input EXCEPT !.range_check_min = passes'.rc_min,
                                          !.range_check_max = passes'.rc_max]
  /\ status' = "returned"
  /\ UNCHANGED <<register_states, memory, decoded, panic_cause, second_trace>>
  /\ UNCHANGED helper_vars

\* build_main_trace panics: nothing is returned and, as every panic precedes
\* the assignments to the public input, the record is left as it was.
BuildMainTracePanics ==
  /\ status = "start"
  /\ \E overflow_checks \in BOOLEAN :
       /\ main_trace_panic(overflow_checks) # ""
       /\ panic_cause' = main_trace_panic(overflow_checks)
  /\ status' = "panicked"
  /\ UNCHANGED <<register_states, memory, decoded, public_input, main_trace, passes,
                 second_trace>>
  /\ UNCHANGED helper_vars

\* The post-processing passes run a second time, on the returned trace.
PostProcessAgain ==
  /\ status = "returned"
  /\ second_trace' = post_process(main_trace, public_input.codelen, pub_memory_len).trace
  /\ status' = "rerun"
  /\ UNCHANGED <<register_states, memory, decoded, public_input, panic_cause, main_trace,
                 passes>>
  /\ UNCHANGED helper_vars

\* get_rc_holes(table, columns_indices) returns.
GetRcHoles ==
  /\ status = "helper"
  /\ rc' = get_rc_holes(table, columns_indices)
  /\ status' = "holes"
  /\ UNCHANGED <<table, columns_indices, filled>>
  /\ UNCHANGED <<build_vars, memory_holes_vars, decompose_vars>>

\* fill_rc_holes(table, holes) returns, for the holes get_rc_holes found.
FillRcHoles ==
  /\ status = "holes"
  /\ filled' = fill_rc_holes(table, rc.holes)
  /\ status' = "filled"
  /\ UNCHANGED <<table, columns_indices, rc>>
  /\ UNCHANGED <<build_vars, memory_holes_vars, decompose_vars>>

\* get_memory_holes(sorted_addrs, codelen) returns.
GetMemoryHoles ==
  /\ status = "addrs"
  /\ memory_holes' = get_memory_holes(sorted_addrs, codelen)
  /\ status' = "memory_holes"
  /\ UNCHANGED <<sorted_addrs, codelen>>
  /\ UNCHANGED <<build_vars, rc_holes_vars, decompose_vars>>

\* decompose_rc_values_into_trace_columns(rc_values) returns.
DecomposeRcValues ==
  /\ status = "rc_values"
  /\ decomposition_columns' = decompose_rc_values_into_trace_columns(rc_values)
  /\ status' = "decomposed"
  /\ UNCHANGED rc_values
  /\ UNCHANGED <<build_vars, rc_holes_vars, memory_holes_vars>>

Next ==
  \/ BuildMainTraceReturns
  \/ BuildMainTracePanics
  \/ PostProcessAgain
  \/ GetRcHoles
  \/ FillRcHoles
  \/ GetMemoryHoles
  \/ DecomposeRcValues

Spec == Init /\ [][Next]_vars

(***************************************************************************)
(* Properties.                                                             *)
(***************************************************************************)
\* build_main_trace has returned main_trace.
Returned == status \in {"returned", "rerun"}

RECURSIVE IsPowerOfTwo(_)
IsPowerOfTwo(n) == n = 1 \/ (n > 1 /\ n % 2 = 0 /\ IsPowerOfTwo(n \div 2))

\* The values of the range-checked columns and column RC_HOLES of a trace.
RangeCheckedValues(trace) ==
  Values(merge_columns(trace, <<OFF_DST, OFF_OP0, OFF_OP1, RC_HOLES>>))

\* The values of the four address columns and column EXTRA_ADDR of a trace.
AddressValues(trace) ==
  Values(merge_columns(trace,
           <<FRAME_PC, FRAME_DST_ADDR, FRAME_OP0_ADDR, FRAME_OP1_ADDR, EXTRA_ADDR>>))

\* C1: when build_main_trace returns (num_steps >= 1), the last pass pads the
\* trace of L rows to next_pow2(L) rows: the returned row count is the least
\* power of two that is at least L, it is at least 16 * num_steps, every
\* added row equals row L-1 in all columns, and rows 0 .. L-1 are unchanged.
C1_PaddedToNextPowerOfTwo ==
  Returned /\ num_steps >= 1 =>
    LET before == passes.with_dummies
        L == n_rows(before)
        n == n_rows(main_trace)
    IN  /\ IsPowerOfTwo(n)
        /\ n >= L
        /\ n = 1 \/ n \div 2 < L
        /\ n >= CAIRO_STEP * num_steps
        /\ \A r \in 1..L : main_trace[r] = before[r]
        /\ \A r \in (L + 1)..n : main_trace[r] = before[L]

\* C1 happens: a pass extended the trace to a row count that is no power of
\* two, and the padding added rows.
C1_Witness ==
  /\ status = "returned"
  /\ n_rows(passes.with_dummies) > n_rows(passes.built)
  /\ n_rows(main_trace) > n_rows(passes.with_dummies)

\* C2: in the returned trace the values of columns OFF_DST, OFF_OP0, OFF_OP1
\* and RC_HOLES are exactly the integers range_check_min .. range_check_max:
\* the smallest is range_check_min, the largest is range_check_max and no
\* integer between them is missing, so consecutive sorted entries differ by
\* 0 or 1; also when a later pass extended the trace.
C2_RangeCheckContiguous ==
  Returned =>
    RangeCheckedValues(main_trace)
      = public_input.range_check_min .. public_input.range_check_max

\* C2 happens: holes were filled and a later pass added rows.
C2_Witness ==
  /\ status = "returned"
  /\ passes.rc_holes # <<>>
  /\ n_rows(main_trace) > n_rows(passes.rc_filled)

C4_RowsCoverStepsHolesAndPublicMemory ==
  Returned =>
    n_rows(main_trace)
      >= CAIRO_STEP * num_steps + Len(passes.memory_holes) + pub_memory_len

\* C4, amended: memory holes and dummy accesses are written from row 0 on,
\* over the rows of the steps, so the returned row count is at least
\* 16 * num_steps and at least |memory_holes| + |public_memory|.
C4_RowsCoverStepsAndCoverHolesWithPublicMemory ==
  Returned =>
    /\ n_rows(main_trace) >= CAIRO_STEP * num_steps
    /\ n_rows(main_trace) >= Len(passes.memory_holes) + pub_memory_len

\* C4 happens: there are memory holes and public memory, and they went into
\* rows of the steps.
C4_Witness ==
  /\ status = "returned"
  /\ passes.memory_holes # <<>>
  /\ pub_memory_len > 0
  /\ n_rows(main_trace)
       < CAIRO_STEP * num_steps + Len(passes.memory_holes) + pub_memory_len

\* C5 as stated: a second run of the post-processing passes on the returned
\* trace leaves every cell and the row count unchanged.
C5_PostProcessingIdempotent ==
  status = "rerun" => second_trace = main_trace

\* C5, amended: a second run leaves the row count and every cell outside
\* column RC_HOLES unchanged, leaves RC_HOLES unchanged in the rows that
\* existed when the first fill_rc_holes returned, and sets RC_HOLES to
\* range_check_max in the rows added after it; the trace is unchanged when
\* the first fill_rc_holes had rows left after the holes, or when the hole
\* list ends with range_check_max.
C5_SecondRunRewritesOnlyLateRcHoles ==
  status = "rerun" =>
    LET n == n_rows(main_trace)
        n1 == n_rows(passes.rc_filled)
        holes == passes.rc_holes
    IN  /\ n_rows(second_trace) = n
        /\ \A r \in 1..n : \A c \in 1..PLAIN_LAYOUT_NUM_COLUMNS :
             c # RC_HOLES + 1 => second_trace[r][c] = main_trace[r][c]
        /\ \A r \in 1..n1 : second_trace[r][RC_HOLES + 1] = main_trace[r][RC_HOLES + 1]
        /\ \A r \in (n1 + 1)..n : second_trace[r][RC_HOLES + 1] = passes.rc_max
        /\ (Len(holes) < n_rows(passes.built) \/ holes[Len(holes)] = passes.rc_max)
             => second_trace = main_trace

\* C5 happens: the first run extended the trace, and a row added after
\* fill_rc_holes holds a hole that is not range_check_max.
C5_Witness ==
  /\ status = "rerun"
  /\ \E r \in (n_rows(passes.rc_filled) + 1)..n_rows(main_trace) :
       main_trace[r][RC_HOLES + 1] # passes.rc_max

\* Row r (from 0) of the block of step s (from 1) of a trace, column c.
StepCell(trace, s, r, c) == trace[CAIRO_STEP * (s - 1) + r + 1][c + 1]

\* The (address sub-row, value sub-row) of dst, op0 and op1 in column 3.
DstCells == <<8, 9>>
Op0Cells == <<4, 5>>
Op1Cells == <<12, 13>>

\* The value cell of an operand equals memory.get of its address cell.
ValueIsMemoryAtAddress(s, x) ==
  StepCell(passes.built, s, x[2], 3) = memory_get(memory, StepCell(passes.built, s, x[1], 3))

\* C6 as stated: at every step, for dst, op0 and op1, the value cell equals
\* memory.get of the address cell, whatever the opcode.
C6_ValueCellsAreMemoryAtAddressCells ==
  Returned =>
    \A s \in 1..num_steps : \A x \in {DstCells, Op0Cells, Op1Cells} :
      ValueIsMemoryAtAddress(s, x)

\* C6, amended: the value cell equals memory.get of the address cell for
\* op1 at every step and for dst and op0 at every step whose opcode is not
\* Call; at a Call step the dst value cell is fp and the op0 value cell is
\* pc + instruction_size (as a u64), while the address cells stay.
C6_ValueCellsAreMemoryAtAddressCellsExceptCall ==
  Returned =>
    \A s \in 1..num_steps :
      LET f == decoded.val[s].flags
          t == register_states[s]
      IN  /\ ValueIsMemoryAtAddress(s, Op1Cells)
          /\ f.opcode # "Call" =>
               ValueIsMemoryAtAddress(s, DstCells) /\ ValueIsMemoryAtAddress(s, Op0Cells)
          /\ f.opcode = "Call" =>
               /\ StepCell(passes.built, s, DstCells[2], 3) = Felt(t.fp)
               /\ StepCell(passes.built, s, Op0Cells[2], 3)
                    = Felt((t.pc + instruction_size(f)) % (U64_MAX + 1))
               /\ StepCell(passes.built, s, DstCells[1], 3)
                    = compute_dst(f, decoded.val[s].offsets, t, memory).addr
               /\ StepCell(passes.built, s, Op0Cells[1], 3)
                    = compute_op0(f, decoded.val[s].offsets, t, memory).addr

\* C6 happens: a Call step whose memory at the dst address is not fp.
C6_Witness ==
  /\ status = "returned"
  /\ \E s \in 1..num_steps :
       /\ decoded.val[s].flags.opcode = "Call"
       /\ ~ValueIsMemoryAtAddress(s, DstCells)

\* C7 as stated: at every step the pc sub-row of column 3 holds
\* memory.get(pc), and so does the instruction sub-row.
C7_PcCellIsMemoryAtPc ==
  Returned =>
    \A s \in 1..num_steps :
      /\ StepCell(passes.built, s, 0, 3) = memory_get(memory, register_states[s].pc)
      /\ StepCell(passes.built, s, 1, 3) = memory_get(memory, register_states[s].pc)

\* C7, amended: at every step the pc sub-row of column 3 holds pc itself, as
\* a field element, and the instruction sub-row holds memory.get(pc).
C7_PcCellIsPcAndInstructionCellIsMemoryAtPc ==
  Returned =>
    \A s \in 1..num_steps :
      /\ StepCell(passes.built, s, 0, 3) = Felt(register_states[s].pc)
      /\ StepCell(passes.built, s, 1, 3) = memory_get(memory, register_states[s].pc)

\* C7 happens: a step whose instruction differs from its pc.
C7_Witness ==
  /\ status = "returned"
  /\ \E s \in 1..num_steps :
       memory_get(memory, register_states[s].pc) # Felt(register_states[s].pc)

\* C8: at every step the derived cells agree with the operand cells of
\* the same step: tmp0 = (bit_flag[9] - 2 * bit_flag[10]) * dst_val,
\* tmp1 = tmp0 * res and ops_mul = op0_val * op1_val; at a Call step
\* op0_val and dst_val are the overridden values pc + instruction_size and fp.
C8_DerivedCellsUseRecordedOperands ==
  Returned =>
    \A s \in 1..num_steps :
      LET f == decoded.val[s].flags
          t == register_states[s]
          cell(r, c) == StepCell(passes.built, s, r, c)
          dst_val == cell(9, 3)
          op0_val == cell(5, 3)
          op1_val == cell(13, 3)
          tmp0 == cell(2, 5)
          tmp1 == cell(10, 5)
          ops_mul == cell(4, 5)
          res == cell(12, 5)
      IN  /\ tmp0 = FMul(FSub(cell(9, 1), FMul(2, cell(10, 1))), dst_val)
          /\ tmp1 = FMul(tmp0, res)
          /\ ops_mul = FMul(op0_val, op1_val)
          /\ f.opcode = "Call" =>
               /\ ops_mul = FMul(Felt((t.pc + instruction_size(f)) % (U64_MAX + 1)), op1_val)
               /\ tmp0 = FMul(FSub(cell(9, 1), FMul(2, cell(10, 1))), Felt(t.fp))

\* C8 happens: a Call step whose override changed op0, with op1 not zero, so
\* that ops_mul is not the product of the memory values; and a step whose
\* tmp0 and tmp1 are not zero.
C8_Witness ==
  /\ status = "returned"
  /\ \E s \in 1..num_steps :
       /\ decoded.val[s].flags.opcode = "Call"
       /\ ~ValueIsMemoryAtAddress(s, Op0Cells)
       /\ StepCell(passes.built, s, 13, 3) # 0
  /\ \E s \in 1..num_steps :
       /\ StepCell(passes.built, s, 2, 5) # 0
       /\ StepCell(passes.built, s, 10, 5) # 0

\* What C9 says of get_rc_holes, for the offsets it read and its result.
RcHolesAsSpecified(offset_columns, result) ==
  LET offsets == Values(offset_columns)
      missing == {v \in (Min(offsets) + 1)..(Max(offsets) - 1) : v \notin offsets}
      m == Cardinality(missing)
      holes == result.holes
  IN  /\ result.rc_min = Min(offsets)
      /\ result.rc_max = Max(offsets)
      /\ Len(holes) % 3 = 0
      /\ Len(holes) - m \in {0, 1, 2}
      /\ \A i \in 1..m : holes[i] \in missing
      /\ \A i \in 1..m : \A j \in 1..m : i < j => holes[i] < holes[j]
      /\ \A i \in (m + 1)..Len(holes) : holes[i] = result.rc_max
      /\ Cardinality(offsets) = 1 => holes = <<>>

\* C9: get_rc_holes returns the smallest and the largest offset as rc_min and
\* rc_max, and as holes every integer strictly between them that is no
\* offset, ascending and once each, followed by 0, 1 or 2 copies of rc_max
\* making the length a multiple of three (no hole when all offsets are
\* equal); build_main_trace publishes rc_min and rc_max as range_check_min
\* and range_check_max.
C9_RcHolesAreTheMissingValuesPadded ==
  /\ status \in {"holes", "filled"} =>
       RcHolesAsSpecified(merge_columns(table, columns_indices), rc)
  /\ Returned =>
       /\ RcHolesAsSpecified(merge_columns(passes.built, <<OFF_DST, OFF_OP0, OFF_OP1>>),
                             [holes |-> passes.rc_holes,
                              rc_min |-> public_input.range_check_min,
                              rc_max |-> public_input.range_check_max])
       /\ public_input.range_check_min = passes.rc_min
       /\ public_input.range_check_max = passes.rc_max

\* C9 happens: get_rc_holes found missing values and added two copies of
\* rc_max.
C9_Witness ==
  /\ status = "holes"
  /\ Len(rc.holes) >= 3
  /\ rc.holes[Len(rc.holes) - 2] < rc.rc_max
  /\ rc.holes[Len(rc.holes) - 1] = rc.rc_max
  /\ rc.holes[Len(rc.holes)] = rc.rc_max

\* What C10 says of fill_rc_holes, for its arguments and the table it left.
RcHolesFilledAsSpecified(trace, holes, out) ==
  LET k == Len(holes)
      n0 == n_rows(trace)
      n == n_rows(out)
      present == Values(merge_columns(trace, <<OFF_DST, OFF_OP0, OFF_OP1>>))
                   \cup Values(holes)
                   \cup {trace[r][RC_HOLES + 1] : r \in (k + 1)..n0}
      greatest == Max(present)
  IN  /\ n = Max({n0, k})
      /\ \A i \in 1..k : out[i][RC_HOLES + 1] = holes[i]
      /\ \A i \in (k + 1)..n : out[i][RC_HOLES + 1] = greatest
      /\ \A i \in (k + 1)..n : out[i][RC_HOLES + 1] = 0 => greatest = 0
      /\ \A r \in 1..n0 : \A c \in DOMAIN trace[r] :
           c # RC_HOLES + 1 => out[r][c] = trace[r][c]

\* C10: after fill_rc_holes(trace, holes), row i of column RC_HOLES is
\* holes[i] for i < len(holes), every later row holds the greatest value
\* present in columns OFF_DST, OFF_OP0, OFF_OP1 and RC_HOLES once the holes
\* were written (a zero only when that greatest value is zero), and the
\* other columns of the rows that existed are unchanged.
C10_RcHolesColumnIsHolesThenGreatest ==
  /\ status = "filled" => RcHolesFilledAsSpecified(table, rc.holes, filled)
  /\ Returned => RcHolesFilledAsSpecified(passes.built, passes.rc_holes, passes.rc_filled)

\* C10 happens: holes were written, rows were left after them, and the
\* greatest value was one column RC_HOLES held before the call.
C10_Witness ==
  /\ status = "filled"
  /\ 0 < Len(rc.holes)
  /\ Len(rc.holes) < n_rows(table)
  /\ filled[n_rows(filled)][RC_HOLES + 1] > rc.rc_max
  /\ filled[n_rows(filled)][RC_HOLES + 1] \notin Values(merge_columns(table, <<OFF_DST>>))

\* C11: for every non-empty ascending list sorted_addrs and every codelen,
\* get_memory_holes returns, ascending and once each, exactly the integers h
\* with min(sorted_addrs) < h < max(sorted_addrs) that do not occur in
\* sorted_addrs and exceed codelen; no h <= codelen is returned.
C11_MemoryHolesAreTheAbsentAddressesAboveCodelen ==
  status = "memory_holes" =>
    LET addrs == Values(sorted_addrs)
        expected == {h \in (Min(addrs) + 1)..(Max(addrs) - 1) :
                       h \notin addrs /\ h > codelen}
    IN  /\ Values(memory_holes) = expected
        /\ Len(memory_holes) = Cardinality(expected)
        /\ \A i \in 1..(Len(memory_holes) - 1) : memory_holes[i] < memory_holes[i + 1]
        /\ \A i \in DOMAIN memory_holes : memory_holes[i] > codelen

\* C11 happens: a list with duplicates and two gaps, one of them cut by
\* codelen: a hole is returned from each gap and an absent address at
\* codelen itself is not.
C11_Witness ==
  /\ status = "memory_holes"
  /\ \E i \in 1..(Len(sorted_addrs) - 1) : sorted_addrs[i] = sorted_addrs[i + 1]
  /\ codelen \notin Values(sorted_addrs)
  /\ Min(Values(sorted_addrs)) < codelen
  /\ \E i \in 1..(Len(sorted_addrs) - 1) :
       /\ sorted_addrs[i] < codelen
       /\ sorted_addrs[i + 1] > codelen + 1
       /\ memory_holes[1] = codelen + 1
  /\ \E i \in 1..(Len(memory_holes) - 1) : memory_holes[i + 1] > memory_holes[i] + 1

\* C12: with k memory holes and m public-memory entries, build_main_trace
\* leaves column EXTRA_ADDR with the holes in rows 0 .. k-1, in the order
\* get_memory_holes returned them, and 0 in rows k .. k+m-1; rows are added
\* only when a written row index is past the row count; no dummy access
\* overwrites a hole row; when k = 0 fill_memory_holes is not invoked and
\* the dummy accesses start at row 0.
C12_ExtraAddrIsHolesThenDummies ==
  Returned =>
    LET k == Len(passes.memory_holes)
        m == pub_memory_len
        before == passes.rc_filled
        after == passes.with_dummies
    IN  /\ n_rows(after) = Max({n_rows(before), k + m})
        /\ \A i \in 1..k : /\ after[i][EXTRA_ADDR + 1] = passes.memory_holes[i]
                            /\ main_trace[i][EXTRA_ADDR + 1] = passes.memory_holes[i]
        /\ \A i \in (k + 1)..(k + m) : /\ after[i][EXTRA_ADDR + 1] = 0
                                        /\ main_trace[i][EXTRA_ADDR + 1] = 0
        /\ \A r \in 1..n_rows(before) : \A c \in 1..PLAIN_LAYOUT_NUM_COLUMNS :
             c # EXTRA_ADDR + 1 => after[r][c] = before[r][c]
        /\ passes.fill_memory_holes_invoked <=> k > 0
        /\ k = 0 => passes.holes_filled = before

\* C12 happens: no memory hole is found, there is public memory, and its
\* dummy accesses, starting at row 0, run past the rows of the steps.
C12_Witness ==
  /\ status = "returned"
  /\ passes.memory_holes = <<>>
  /\ ~passes.fill_memory_holes_invoked
  /\ pub_memory_len > n_rows(passes.built)
  /\ n_rows(passes.with_dummies) = pub_memory_len
  /\ passes.with_dummies[1][EXTRA_ADDR + 1] = 0

\* build_main_trace was called and has ended.
Ended == status \in {"returned", "rerun", "panicked"}

\* C13 as stated: when flags_and_offsets returns an error, the call ends
\* with that error handed back to the caller as a value, and in no other
\* way: it neither panics nor returns a trace.
C13_DecodeErrorHandedBackToCaller ==
  decoded.err => ~Ended

\* C13, amended: when flags_and_offsets returns an error, the builder
\* unwraps it and panics: build_main_trace ends with a fatal error, as for
\* the other failures; no trace is returned and the public input is left
\* unwritten.
C13_DecodeErrorPanics ==
  decoded.err /\ Ended =>
    /\ status = "panicked"
    /\ panic_cause = "decode"
    /\ main_trace = <<>>
    /\ public_input.range_check_min = None
    /\ public_input.range_check_max = None

\* C13 happens: a call with steps whose decoding failed has ended.
C13_Witness ==
  /\ decoded.err
  /\ num_steps > 0
  /\ status = "panicked"

\* The sum of limbs[j] * 2^(RC_LIMB_BITS * (j - 1)) over j = from .. RC_LIMBS.
RECURSIVE LimbSum(_, _)
LimbSum(limbs, from) ==
  IF from > RC_LIMBS THEN 0
  ELSE limbs[from] * 2^(RC_LIMB_BITS * (from - 1)) + LimbSum(limbs, from + 1)

\* C14: decompose_rc_values_into_trace_columns returns exactly 8 columns,
\* each with one row per input value in input order; column j row i is limb
\* j of value i, counted from the least significant: (v_i >> 16 * j) &
\* 0xFFFF; every limb is below 2^16 and the limbs of a value sum, weighted
\* by 2^(16 * j), to the value modulo 2^128 (limbs of RC_LIMB_BITS bits in
\* the model).
C14_EightLimbColumns ==
  status = "decomposed" =>
    /\ Len(decomposition_columns) = 8
    /\ \A j \in 1..8 :
         /\ Len(decomposition_columns[j]) = Len(rc_values)
         /\ \A i \in DOMAIN rc_values :
              /\ decomposition_columns[j][i]
                   = (rc_values[i] \div 2^(RC_LIMB_BITS * (j - 1))) % 2^RC_LIMB_BITS
              /\ decomposition_columns[j][i] < 2^RC_LIMB_BITS
    /\ \A i \in DOMAIN rc_values :
         LimbSum([j \in 1..8 |-> decomposition_columns[j][i]], 1)
           = rc_values[i] % 2^(RC_LIMB_BITS * 8)

\* C14 happens: two values are decomposed, one of them with limbs that
\* differ and with bits above the eight limbs.
C14_Witness ==
  /\ status = "decomposed"
  /\ Len(rc_values) = 2
  /\ rc_values[1] # rc_values[2]
  /\ rc_values[2] >= 2^(RC_LIMB_BITS * RC_LIMBS)
  /\ decomposition_columns[1][2] # decomposition_columns[2][2]
  /\ decomposition_columns[1][1] # decomposition_columns[1][2]

\* The flags, offsets and registers of step s (from 1).
FlagsOf(s) == decoded.val[s].flags
OffsetsOf(s) == decoded.val[s].offsets
RegisterOf(s, reg) == IF reg = "AP" THEN register_states[s].ap ELSE register_states[s].fp

\* The operand addresses of step s as the claims state them: integer sums,
\* which may leave 0 .. U64_MAX.
DstAddrOf(s) == RegisterOf(s, FlagsOf(s).dst_reg) + OffsetsOf(s).off_dst
Op0AddrOf(s) == RegisterOf(s, FlagsOf(s).op0_reg) + OffsetsOf(s).off_op0
Op1BaseOf(s) ==
  CASE FlagsOf(s).op1_src = "Op0" -> memory[Op0AddrOf(s)] % 2^U64_BITS
    [] FlagsOf(s).op1_src = "Imm" -> register_states[s].pc
    [] FlagsOf(s).op1_src = "AP"  -> register_states[s].ap
    [] FlagsOf(s).op1_src = "FP"  -> register_states[s].fp
Op1AddrOf(s) == Op1BaseOf(s) + OffsetsOf(s).off_op1

\* C15: at every step of a trace that was built, the res cell is dst when
\* opcode = AssertEq; otherwise, when pc_update = Jnz, 0 if dst = 0 and the
\* inverse of dst (dst * res = 1) if not; otherwise op1, op0 + op1 or
\* op0 * op1 for res_logic Op1, Add or Mul; op0, op1 and dst being the memory
\* values at the operand addresses, before the overrides.  No call ends on
\* an inversion of zero.
C15_ResCellIsTheSpecifiedRes ==
  /\ panic_cause # "inverse_of_zero"
  /\ Returned =>
       \A s \in 1..num_steps :
         LET f == FlagsOf(s)
             dst == memory[DstAddrOf(s)]
             op0 == memory[Op0AddrOf(s)]
             op1 == memory[Op1AddrOf(s)]
             res == StepCell(passes.built, s, 12, 5)
         IN  IF f.opcode = "AssertEq" THEN res = dst
             ELSE IF f.pc_update = "Jnz"
               THEN /\ dst = 0 => res = 0
                    /\ dst # 0 => (dst * res) % P = 1
             ELSE /\ f.res_logic = "Op1" => res = op1
                  /\ f.res_logic = "Add" => res = (op0 + op1) % P
                  /\ f.res_logic = "Mul" => res = (op0 * op1) % P

\* C15 happens: a trace with a jnz step whose dst is zero and a Call step
\* that adds its operands and whose op0 cell was overridden.
C15_Witness ==
  /\ status = "returned"
  /\ \E s \in 1..num_steps :
       /\ FlagsOf(s).pc_update = "Jnz"
       /\ memory[DstAddrOf(s)] = 0
  /\ \E s \in 1..num_steps :
       /\ FlagsOf(s).opcode = "Call"
       /\ FlagsOf(s).res_logic = "Add"
       /\ StepCell(passes.built, s, 5, 3) # memory[Op0AddrOf(s)]

\* C16: the overrides act once, after dst, op0, op1 and res are computed.  At
\* a Call step the op0 cell is pc + instruction_size (2 when op1_src = Imm,
\* 1 otherwise; a u64 sum) and the dst cell is fp; at an AssertEq step only
\* res changes (to dst); at NOp and Ret steps dst, op0 and res keep their
\* base values; the op1 cell and the three address cells are the base ones
\* at every step, the op1 address of op1_src = Op0 coming from the memory
\* value of op0.
C16_OverridesAfterBaseValues ==
  Returned =>
    \A s \in 1..num_steps :
      LET f == FlagsOf(s)
          t == register_states[s]
          cell(r, c) == StepCell(passes.built, s, r, c)
          dst == memory[DstAddrOf(s)]
          op0 == memory[Op0AddrOf(s)]
          op1 == memory[Op1AddrOf(s)]
          res == compute_res(f, op0, op1, dst).val
          size == IF f.op1_src = "Imm" THEN 2 ELSE 1
      IN  /\ cell(8, 3) = DstAddrOf(s)
          /\ cell(4, 3) = Op0AddrOf(s)
          /\ cell(12, 3) = Op1AddrOf(s)
          /\ cell(13, 3) = op1
          /\ f.opcode = "Call" =>
               /\ cell(5, 3) = (t.pc + size) % 2^U64_BITS
               /\ cell(9, 3) = t.fp
               /\ cell(12, 5) = res
          /\ f.opcode = "AssertEq" =>
               /\ cell(5, 3) = op0
               /\ cell(9, 3) = dst
               /\ cell(12, 5) = dst
          /\ f.opcode \in {"NOp", "Ret"} =>
               /\ cell(5, 3) = op0
               /\ cell(9, 3) = dst
               /\ cell(12, 5) = res

\* C16 happens: a Call step with op1_src = Op0 whose op0 cell was overridden
\* and whose op1 address is not the one the overridden op0 gives, and an
\* AssertEq step whose res was changed.
C16_Witness ==
  /\ status = "returned"
  /\ \E s \in 1..num_steps :
       /\ FlagsOf(s).opcode = "Call"
       /\ FlagsOf(s).op1_src = "Op0"
       /\ StepCell(passes.built, s, 5, 3) # memory[Op0AddrOf(s)]
       /\ StepCell(passes.built, s, 12, 3)
            # StepCell(passes.built, s, 5, 3) + OffsetsOf(s).off_op1
  /\ \E s \in 1..num_steps :
       /\ FlagsOf(s).opcode = "AssertEq"
       /\ StepCell(passes.built, s, 12, 5)
            # (memory[Op0AddrOf(s)] + memory[Op1AddrOf(s)]) % P

\* An address that is no u64, or that memory does not hold.
OutOfRange(a) == a < 0 \/ a > U64_MAX
Absent(a) == OutOfRange(a) \/ memory[a] = None
AddressFails(s) == Absent(DstAddrOf(s)) \/ Absent(Op0AddrOf(s)) \/ Absent(Op1AddrOf(s))

\* C17: at every step the recorded addresses are dst_addr = (ap or fp, by
\* dst_reg) + off_dst, op0_addr = (ap or fp, by op0_reg) + off_op0 and
\* op1_addr = base + off_op1, base being the low 64 bits of the op0 value, pc,
\* ap or fp by op1_src; when a sum is below 0 or above 2^64 - 1, or the
\* address is absent from memory, the builder panics: it records neither a
\* wrapped address nor a default value.
C17_AddressesAreCheckedSums ==
  /\ Returned =>
       \A s \in 1..num_steps :
         /\ StepCell(passes.built, s, 8, 3) = DstAddrOf(s)
         /\ StepCell(passes.built, s, 4, 3) = Op0AddrOf(s)
         /\ StepCell(passes.built, s, 12, 3) = Op1AddrOf(s)
         /\ ~AddressFails(s)
  /\ (Ended /\ ~decoded.err /\ \E s \in 1..num_steps : AddressFails(s)) =>
       /\ status = "panicked"
       /\ panic_cause \in {"overflow", "memory_miss"}
       /\ main_trace = <<>>

\* C17 happens: a call with a step whose dst sum is above U64_MAX and whose
\* op0 sum is below 0, and with a step whose dst address memory does not
\* hold, has ended.
C17_Witness ==
  /\ status = "panicked"
  /\ ~decoded.err
  /\ \E s \in 1..num_steps : DstAddrOf(s) > U64_MAX /\ Op0AddrOf(s) < 0
  /\ \E s \in 1..num_steps : ~OutOfRange(DstAddrOf(s)) /\ memory[DstAddrOf(s)] = None

\* The flag combinations compute_res has no value for.
Forbidden(f) ==
  \/ /\ f.pc_update = "Jnz"
     /\ ~(f.res_logic = "Op1" /\ f.opcode = "NOp"
            /\ f.ap_update \in {"Regular", "Add1", "Add2"})
  \/ /\ f.pc_update \in {"Regular", "Jump", "JumpRel"}
     /\ f.res_logic = "Unconstrained"

\* C18: when a step has a forbidden flag combination (pc_update = Jnz
\* without res_logic = Op1, opcode = NOp and ap_update in {Regular, Add1,
\* Add2}; or pc_update in {Regular, Jump, JumpRel} with res_logic =
\* Unconstrained), build_main_trace ends with a panic, returns no trace, not
\* even a partial one, and leaves the public input as it was:
\* range_check_min and range_check_max are not written.
C18_ForbiddenFlagsPanicBeforePublishing ==
  (Ended /\ ~decoded.err /\ \E s \in 1..num_steps : Forbidden(FlagsOf(s))) =>
    /\ status = "panicked"
    /\ main_trace = <<>>
    /\ passes = <<>>
    /\ public_input.range_check_min = None
    /\ public_input.range_check_max = None
    /\ (\A s \in 1..num_steps : ~AddressFails(s)) => panic_cause = "undefined_behavior"

\* C18 happens: a call with a jnz step that is a Call and a step of
\* unconstrained res, all addresses of which are in memory, has ended.
C18_Witness ==
  /\ status = "panicked"
  /\ panic_cause = "undefined_behavior"
  /\ \E s \in 1..num_steps : FlagsOf(s).pc_update = "Jnz" /\ FlagsOf(s).opcode = "Call"
  /\ \E s \in 1..num_steps : FlagsOf(s).res_logic = "Unconstrained"
  /\ public_input.codelen > 0

\* What the plain layout places at sub-row k, column c of the block of step
\* s: the quantity named by the table of placements, and 0 elsewhere.
PlacedCell(s, k, c) ==
  LET f == FlagsOf(s)
      o == OffsetsOf(s)
      t == register_states[s]
      call == f.opcode = "Call"
      dst_val == IF call THEN t.fp ELSE memory[DstAddrOf(s)]
      op0_val == IF call THEN (t.pc + instruction_size(f)) % 2^U64_BITS
                 ELSE memory[Op0AddrOf(s)]
      op1_val == memory[Op1AddrOf(s)]
      res == IF f.opcode = "AssertEq" THEN memory[DstAddrOf(s)]
             ELSE compute_res(f, memory[Op0AddrOf(s)], op1_val, memory[DstAddrOf(s)]).val
      tmp0 == FMul(FSub(Felt(bit_prefix(f, 9)), FMul(2, Felt(bit_prefix(f, 10)))), dst_val)
  IN  CASE c = 0 /\ k = 0  -> o.off_dst + OFF_BIAS
        [] c = 0 /\ k = 4  -> o.off_op1 + OFF_BIAS
        [] c = 0 /\ k = 8  -> o.off_op0 + OFF_BIAS
        [] c = 1            -> Felt(bit_prefix(f, k))
        [] c = 3 /\ k = 0  -> t.pc
        [] c = 3 /\ k = 1  -> memory[t.pc]
        [] c = 3 /\ k = 4  -> Op0AddrOf(s)
        [] c = 3 /\ k = 5  -> op0_val
        [] c = 3 /\ k = 8  -> DstAddrOf(s)
        [] c = 3 /\ k = 9  -> dst_val
        [] c = 3 /\ k = 12 -> Op1AddrOf(s)
        [] c = 3 /\ k = 13 -> op1_val
        [] c = 5 /\ k = 0  -> t.ap
        [] c = 5 /\ k = 2  -> tmp0
        [] c = 5 /\ k = 4  -> FMul(op0_val, op1_val)
        [] c = 5 /\ k = 8  -> t.fp
        [] c = 5 /\ k = 10 -> FMul(tmp0, res)
        [] c = 5 /\ k = 12 -> res
        [] OTHER -> 0

\* C19: the trace build_cairo_execution_trace returns has exactly
\* 16 * num_steps rows of 8 columns; the block of rows 16 * s .. 16 * s + 15
\* of step s holds, at the placements of the plain layout, the quantities of
\* step s and of no other step, and every cell that is no placement, all of
\* columns 2, 4, 6 and 7 among them, is zero.
C19_OnlyThePlacementsAreWritten ==
  Returned =>
    /\ n_rows(passes.built) = 16 * num_steps
    /\ \A r \in 1..n_rows(passes.built) : Len(passes.built[r]) = 8
    /\ \A s \in 1..num_steps : \A k \in 0..15 : \A c \in 0..7 :
         passes.built[16 * (s - 1) + k + 1][c + 1] = PlacedCell(s, k, c)

\* C19 happens: a trace of two steps that differ, the second with a value
\* other than zero at every placement of columns 0, 3 and 5.
C19_Witness ==
  /\ status = "returned"
  /\ num_steps = 2
  /\ SubSeq(passes.built, 1, 16) # SubSeq(passes.built, 17, 32)
  /\ \A k \in {0, 4, 8} : passes.built[17 + k][1] # 0
  /\ \A k \in {0, 1, 4, 5, 8, 9, 12, 13} : passes.built[17 + k][4] # 0
  /\ \A k \in {0, 2, 4, 8, 10, 12} : passes.built[17 + k][6] # 0
  /\ passes.built[17][2] # 0

====
